---- MODULE Spec2Model ----
(***************************************************************************)
(* Model of CreateLakeParamTisza.c: sink/flat elimination (fillin,         *)
(* fillinpitsandflats), the ranked flow-routing sweep (indexx,             *)
(* mfdflowroute), main's nodata count, and the lake/wetland profile        *)
(* builder (VICcalculation).                                               *)
(*                                                                         *)
(* Elevations are fixed-point numbers in units of fillincrement (0.01 m),  *)
(* so one raise adds 1.  Flow is an exact fraction <<num, den>> in units   *)
(* of one cell area (deltax*deltay).                                       *)
(***************************************************************************)
EXTENDS Integers, Sequences, FiniteSets, TLC

\* ------------------------------------------------------------------ bounds
\* columns and rows of the DEM (main: lattice_size_x = columns, lattice_size_y = rows)
lattice_size_x == 4
lattice_size_y == 3
\* largest input elevation, in units of fillincrement
MaxElev == 2
\* recursion depth at which the C call stack is taken to be exhausted; no
\* terminating fill of a grid within the bounds gets this deep
MaxDepth == lattice_size_x * lattice_size_y * (MaxElev + 2)
\* largest number of active cells passed to VICcalculation
MaxActive == 16
\* largest number of open-water cells and of wetland cells among them
MaxWater == 1
MaxWetland == 7
\* largest number of active cells when VICcalculation is called with any n
MaxCallActive == 6
\* largest number of cells of the input that hold one value, for the sweeps
\* that are free in the order of ties
MaxTie == 5
\* longest array handed to quick and largest key in it, for the sort on its own
MaxItems == 6
MaxRank == 3

\* ------------------------------------------------------- program constants
\* #define fillincrement 0.01, the unit of elevation here
fillincrement == 1
\* NODATA_value of the header; main replaces every negative elevation by it
nodata == 0 - 1

VARIABLES
  dem,        \* main's dem[][] as read (negative values already nodata), by <<i, j>>
  topo,       \* the global filled surface topo[i][j], 1-based, i = column, j = row
  pc,         \* position of the run
  cur,        \* fillin's loop position: the next cell (j-1)*lattice_size_x+i to call
  stack,      \* call stack of fillinpitsandflats frames that raised their cell
  raises,     \* number of raises performed so far
  flow,       \* the global accumulation grid flow[i][j], exact fractions of a cell area
  topovecind, \* fillin's index vector as indexx left it (<<>> before the sort)
  t,          \* fillin's sweep position
  visited,    \* the cells mfdflowroute has been called for
  cnt,        \* main's counter cnt once it has been read ("unset" before)
  entered,    \* whether main called Topindex
  deltax,     \* the metric cell size (deltax = deltay), in metres, once used
  contour_length, \* Topindex's contour_length[y][x], in units of 0.2*deltax
  tanbeta_pixel,  \* tanbeta_pixel[y][x] * deltax, in ten-thousandths
  wetnessindex,   \* wetnessindex[y][x], to three significant digits
  AveDelev,   \* AveDelev[y][x] * deltax, exact fractions of a ten-thousandth
  veg,        \* totalVeg and the fractions uplandVeg, wetlandVeg and waterVeg
  used,       \* the positions of OrderedCellsDEM and OrderedCellsTWI that Topindex
              \* has read or written, and the number of items calloc'ed for each
  items,      \* the ITEM array handed to the quick call under study
  ranked,     \* the array as quick left it, and the indices qs used on the way
  stdout,     \* lines written to standard output
  arg,        \* the arguments of the VICcalculation call under study
  option,     \* its output schema argument
  vpc,        \* position inside VICcalculation
  bins,       \* LakeBins, LakeDepth, WetBins and areacriteria once computed
  WetlandBin, \* rows 0 (area), 1 (wetness index) and ROWS-1 (elevation) of WetlandBin
  walk,       \* the bin walk's i, counter and cnt, and whether it wrote out of bounds
  prof,       \* AREASUM, BATHSUM, DEMSUM and TWI once assembled
  lakeRun     \* what the "LAKE" run of the same arguments produced, for the "SEA" run

fillvars == <<topo, pc, cur, stack, raises>>
routevars == <<flow, topovecind, t, visited>>
mainvars == <<cnt, entered>>
topvars == <<deltax, contour_length, tanbeta_pixel, wetnessindex, AveDelev, veg,
              used, items, ranked>>
vicvars == <<arg, option, vpc, bins, WetlandBin, walk, prof, lakeRun>>
pipevars == <<dem, fillvars, routevars, mainvars, topvars>>
vars == <<pipevars, stdout, vicvars>>

\* ------------------------------------------------------------------- grid
Cols == 1..lattice_size_x
Rows == 1..lattice_size_y
Cells == Cols \X Rows
NCells == lattice_size_x * lattice_size_y
Elevs == 0..MaxElev
Vals == Elevs \cup {nodata}

\* an array as the code fills it in: every element's value computed once
Filled(f) == f @@ <<>>

\* setupgridneighbors: clamped neighbour index vectors
iup == [i \in Cols |-> IF i = lattice_size_x THEN lattice_size_x ELSE i + 1]
idown == [i \in Cols |-> IF i = 1 THEN 1 ELSE i - 1]
jup == [j \in Rows |-> IF j = lattice_size_y THEN lattice_size_y ELSE j + 1]
jdown == [j \in Rows |-> IF j = 1 THEN 1 ELSE j - 1]

\* the 8 neighbours of (i, j) in the order fillinpitsandflats examines them
Neighbors(i, j) ==
  << <<iup[i], j>>, <<idown[i], j>>, <<i, jup[j]>>, <<i, jdown[j]>>,
     <<iup[i], jup[j]>>, <<idown[i], jup[j]>>, <<idown[i], jdown[j]>>,
     <<iup[i], jdown[j]>> >>

RecCallsSelfOnly(i, j) == [k \in 1..9 |-> <<i, j>>]

\* the 9 recursive calls a raising frame makes, in order: the cell, then the 8
RecCalls(i, j) == << <<i, j>> >> \o Neighbors(i, j)

Interior(i, j) ==
  (i > 1) /\ (j > 1) /\ (i < lattice_size_x) /\ (j < lattice_size_y)

\* fillin's loop order: j outer, i inner
CellOf(c) ==
  << ((c - 1) % lattice_size_x) + 1, ((c - 1) \div lattice_size_x) + 1 >>

\* ---------------------------------------------------- fillinpitsandflats
RECURSIVE MinOver(_, _, _, _)
MinOver(tp, nb, k, min) ==
  IF k > Len(nb) THEN min
  ELSE MinOver(tp, nb, k + 1,
               IF tp[nb[k]] < min /\ tp[nb[k]] # nodata THEN tp[nb[k]] ELSE min)

\* lines 1230-1238: min starts at the cell's own value when that is valid and is
\* otherwise left uninitialised (m0); then the valid neighbours lower it
FillMin(tp, i, j, m0) ==
  MinOver(tp, Neighbors(i, j), 1, IF tp[<<i, j>>] # nodata THEN tp[<<i, j>>] ELSE m0)

FillCondAnywhere(tp, i, j, min) ==
  (tp[<<i, j>>] <= min) /\ (tp[<<i, j>>] # nodata)

\* line 1240
FillCond(tp, i, j, min) ==
  (tp[<<i, j>>] <= min) /\ (tp[<<i, j>>] # nodata) /\ Interior(i, j)

RaisedBelow(tp, i, j, min) == [tp EXCEPT ![<<i, j>>] = min - fillincrement]

RaisedTwice(tp, i, j, min) == [tp EXCEPT ![<<i, j>>] = min + 2 * fillincrement]

\* line 1242
Raised(tp, i, j, min) == [tp EXCEPT ![<<i, j>>] = min + fillincrement]

\* values an uninitialised double min may hold
UninitMin == {nodata, 0, MaxElev + 1}

\* one call fillinpitsandflats(i, j) made with the frames below it in rest:
\* either it returns at once, or it raises the cell and becomes a frame whose
\* next recursive call is the first
Call(i, j, rest) ==
  \E m0 \in UninitMin :
    LET min == FillMin(topo, i, j, m0) IN
      IF FillCond(topo, i, j, min)
      THEN IF Len(rest) >= MaxDepth
           THEN /\ pc' = "overflow"
                /\ UNCHANGED <<topo, raises>>
                /\ stack' = rest
           ELSE /\ topo' = Raised(topo, i, j, min)
                /\ raises' = raises + 1
                /\ stack' = <<[i |-> i, j |-> j, k |-> 1]>> \o rest
                /\ pc' = pc
      ELSE /\ stack' = rest
           /\ UNCHANGED <<topo, raises, pc>>

\* fillin, lines 1056-1061: the next call of the double loop
FillinLoop ==
  /\ pc = "fill"
  /\ stack = <<>>
  /\ cur <= NCells
  /\ cur' = cur + 1
  /\ Call(CellOf(cur)[1], CellOf(cur)[2], <<>>)
  /\ UNCHANGED <<dem, routevars, mainvars, topvars, stdout, vicvars>>

\* lines 1243-1251: the top frame makes its next recursive call
FillRecurse ==
  /\ pc = "fill"
  /\ stack # <<>>
  /\ Head(stack).k <= 9
  /\ LET f == Head(stack)
         c == RecCalls(f.i, f.j)[f.k]
     IN Call(c[1], c[2], <<[f EXCEPT !.k = f.k + 1]>> \o Tail(stack))
  /\ UNCHANGED <<dem, cur, routevars, mainvars, topvars, stdout, vicvars>>

\* line 1254: a frame that made its 9 calls returns
FillReturn ==
  /\ pc = "fill"
  /\ stack # <<>>
  /\ Head(stack).k > 9
  /\ stack' = Tail(stack)
  /\ UNCHANGED <<dem, topo, pc, cur, raises, routevars, mainvars, topvars, stdout, vicvars>>

\* ------------------------------------------------------------------ indexx
\* #define M 7: subarrays shorter than this are sorted by straight insertion
M == 7

Swap(s, a, b) == [s EXCEPT ![a] = s[b], ![b] = s[a]]

\* lines 1148-1152: shift the larger entries up and drop indxt in the gap
RECURSIVE InsertInner(_, _, _, _, _)
InsertInner(arr, indx, i, a, indxt) ==
  IF i >= 1 /\ ~(arr[indx[i]] <= a)
  THEN InsertInner(arr, [indx EXCEPT ![i + 1] = indx[i]], i - 1, a, indxt)
  ELSE [indx EXCEPT ![i + 1] = indxt]

\* lines 1145-1153: straight insertion of indx[l+1..ir]
RECURSIVE InsertionSort(_, _, _, _)
InsertionSort(arr, indx, j, ir) ==
  IF j > ir THEN indx
  ELSE InsertionSort(arr, InsertInner(arr, indx, j - 1, arr[indx[j]], indx[j]),
                     j + 1, ir)

\* line 1174: do i++; while (arr[indx[i]] < a), entered with i already stepped
RECURSIVE ScanUp(_, _, _, _)
ScanUp(arr, indx, i, a) ==
  IF arr[indx[i]] < a THEN ScanUp(arr, indx, i + 1, a) ELSE i

\* line 1175: do j--; while (arr[indx[j]] > a)
RECURSIVE ScanDown(_, _, _, _)
ScanDown(arr, indx, j, a) ==
  IF arr[indx[j]] > a THEN ScanDown(arr, indx, j - 1, a) ELSE j

\* lines 1173-1178: the partitioning loop; yields <<indx, i, j>>
RECURSIVE Partition(_, _, _, _, _)
Partition(arr, indx, i, j, a) ==
  LET i2 == ScanUp(arr, indx, i + 1, a)
      j2 == ScanDown(arr, indx, j - 1, a)
  IN IF j2 < i2 THEN <<indx, i2, j2>>
     ELSE Partition(arr, Swap(indx, i2, j2), i2, j2, a)

\* lines 1158-1168: median of three into indx[l], sentinels at l+1 and ir
MedianOfThree(arr, indx, l, ir) ==
  LET s0 == Swap(indx, (l + ir) \div 2, l + 1)
      s1 == IF arr[s0[l + 1]] > arr[s0[ir]] THEN Swap(s0, l + 1, ir) ELSE s0
      s2 == IF arr[s1[l]] > arr[s1[ir]] THEN Swap(s1, l, ir) ELSE s1
  IN IF arr[s2[l + 1]] > arr[s2[l]] THEN Swap(s2, l + 1, l) ELSE s2

\* lines 1143-1192: the for(;;) loop; istack holds pairs <<l, ir>>, top first
RECURSIVE IndexxLoop(_, _, _, _, _)
IndexxLoop(arr, indx, l, ir, istack) ==
  IF ir - l < M
  THEN LET s == InsertionSort(arr, indx, l + 1, ir) IN
         IF istack = <<>> THEN s
         ELSE IndexxLoop(arr, s, Head(istack)[1], Head(istack)[2], Tail(istack))
  ELSE LET s == MedianOfThree(arr, indx, l, ir)
           indxt == s[l]
           p == Partition(arr, s, l + 1, ir, arr[indxt])
           i == p[2]
           j == p[3]
           s2 == [p[1] EXCEPT ![l] = p[1][j], ![j] = indxt]
       IN IF ir - i + 1 >= j - l
          THEN IndexxLoop(arr, s2, l, j - 1, << <<i, ir>> >> \o istack)
          ELSE IndexxLoop(arr, s2, i, ir, << <<l, j - 1>> >> \o istack)

\* indexx(n, arr, indx): indx[1..n] such that arr[indx[.]] ascends
\* no ranking at all: every index keeps its place
indexxIdentity(n, arr) == [k \in 1..n |-> k]

indexx(n, arr) == IndexxLoop(arr, [k \in 1..n |-> k], 1, n, <<>>)

\* fillin, lines 1065-1068: topovec[(j-1)*lattice_size_x+i] = topo[i][j]
TopoVec(tp) == [k \in 1..NCells |-> tp[CellOf(k)]]

\* fillin, lines 1075-1078: the cell (i, j) an index of topovec stands for
Decode(ind) ==
  LET i0 == ind % lattice_size_x
      i == IF i0 = 0 THEN lattice_size_x ELSE i0
      j0 == (ind \div lattice_size_x) + 1
      j == IF i = lattice_size_x THEN j0 - 1 ELSE j0
  IN <<i, j>>

\* ----------------------------------------------------------- exact fractions
RECURSIVE GCD(_, _)
GCD(a, b) == IF b = 0 THEN a ELSE GCD(b, a % b)

Frac(n, d) == LET g == GCD(n, d) IN IF n = 0 THEN <<0, 1>> ELSE <<n \div g, d \div g>>

FracAdd(a, b) ==
  LET g == GCD(a[2], b[2])
  IN Frac(a[1] * (b[2] \div g) + b[1] * (a[2] \div g), (a[2] \div g) * b[2])

\* a * (w / tot), and 0 when the share is 0
FracShare(a, w, tot) ==
  IF w = 0 THEN <<0, 1>>
  ELSE LET g1 == GCD(a[1], tot)
           g2 == GCD(w, a[2])
       IN Frac((a[1] \div g1) * (w \div g2), (a[2] \div g2) * (tot \div g1))

\* ------------------------------------------------------------ mfdflowroute
\* 4 * d^1.1 and 4 * (d * oneoversqrt2)^1.1 for a drop of d increments,
\* rounded to whole numbers (the factor common to all eight cancels in the shares)
Pow11 == <<4, 9, 13, 18, 23, 29, 34, 39, 45, 50, 56, 62>>
Pow11Diag == <<3, 6, 9, 13, 16, 20, 23, 27, 31, 34, 38, 42>>

\* the targets of flow1 .. flow8, lines 1314-1321
FlowTargets(i, j) ==
  << <<iup[i], j>>, <<idown[i], j>>, <<i, jup[j]>>, <<i, jdown[j]>>,
     <<iup[i], jup[j]>>, <<iup[i], jdown[j]>>, <<idown[i], jup[j]>>,
     <<idown[i], jdown[j]>> >>

SlopeTermUnmasked(tp, i, j, k) ==
  LET nb == FlowTargets(i, j)[k] IN
    IF tp[<<i, j>>] > tp[nb]
    THEN IF k <= 4 THEN Pow11[tp[<<i, j>>] - tp[nb]]
         ELSE Pow11Diag[tp[<<i, j>>] - tp[nb]]
    ELSE 0

\* flow shared with neighbours of equal elevation too, as if one step lower
SlopeTermTies(tp, i, j, k) ==
  LET nb == FlowTargets(i, j)[k] IN
    IF tp[<<i, j>>] >= tp[nb] /\ tp[nb] # nodata /\ nb # <<i, j>>
    THEN IF k <= 4 THEN Pow11[tp[<<i, j>>] - tp[nb] + 1]
         ELSE Pow11Diag[tp[<<i, j>>] - tp[nb] + 1]
    ELSE 0

\* flow sent uphill: the comparison of lines 1264-1279 turned round
SlopeTermUphill(tp, i, j, k) ==
  LET nb == FlowTargets(i, j)[k] IN
    IF tp[<<i, j>>] < tp[nb] /\ tp[<<i, j>>] # nodata
    THEN IF k <= 4 THEN Pow11[tp[nb] - tp[<<i, j>>]]
         ELSE Pow11Diag[tp[nb] - tp[<<i, j>>]]
    ELSE 0

\* lines 1264-1279: the term direction k adds to tot
SlopeTerm(tp, i, j, k) ==
  LET nb == FlowTargets(i, j)[k] IN
    IF tp[<<i, j>>] > tp[nb] /\ tp[nb] # nodata
    THEN IF k <= 4 THEN Pow11[tp[<<i, j>>] - tp[nb]]
         ELSE Pow11Diag[tp[<<i, j>>] - tp[nb]]
    ELSE 0

\* lines 1260-1312: numerators of flow1 .. flow8 over the common denominator tot
FlowTerms(tp, i, j) ==
  [k \in 1..8 |-> IF tp[<<i, j>>] = nodata THEN 0 ELSE SlopeTerm(tp, i, j, k)]

RECURSIVE SumTerms(_, _)
SumTerms(w, k) == IF k = 0 THEN 0 ELSE w[k] + SumTerms(w, k - 1)

\* lines 1314-1321: the eight additions, in order
RECURSIVE Distribute(_, _, _, _, _, _)
Distribute(fl, i, j, w, tot, k) ==
  IF k > 8 THEN fl
  ELSE LET nb == FlowTargets(i, j)[k] IN
         Distribute([fl EXCEPT ![nb] = FracAdd(fl[nb], FracShare(fl[<<i, j>>], w[k], tot))],
                    i, j, w, tot, k + 1)

mfdflowroute(fl, tp, i, j) ==
  LET w == FlowTerms(tp, i, j) IN Distribute(fl, i, j, w, SumTerms(w, 8), 1)

\* ------------------------------------------------------------------ fillin
\* lines 1065-1071: every cell has been called; rank the filled surface
FillDone ==
  /\ pc = "fill"
  /\ stack = <<>>
  /\ cur > NCells
  /\ topovecind' = indexx(NCells, TopoVec(topo))
  /\ t' = NCells + 1
  /\ pc' = "route"
  /\ UNCHANGED <<dem, topo, cur, stack, raises, flow, visited, mainvars, topvars, stdout,
                 vicvars>>

\* lines 1073-1080: one turn of the sweep, highest rank first
RouteStep ==
  /\ pc = "route"
  /\ t > 1
  /\ t' = t - 1
  /\ LET c == Decode(topovecind[t - 1])
     IN /\ flow' = mfdflowroute(flow, topo, c[1], c[2])
        /\ visited' = visited \cup {c}
  /\ UNCHANGED <<dem, fillvars, topovecind, mainvars, topvars, stdout, vicvars>>

\* one turn of a sweep that is free in the order of equal elevations: any
\* cell not yet visited that no unvisited cell is higher than
RouteAnyTie ==
  /\ pc = "route"
  /\ t > 1
  /\ t' = t - 1
  /\ \E c \in Cells \ visited :
       /\ \A n \in Cells \ visited : topo[n] <= topo[c]
       /\ flow' = mfdflowroute(flow, topo, c[1], c[2])
       /\ visited' = visited \cup {c}
  /\ UNCHANGED <<dem, fillvars, topovecind, mainvars, topvars, stdout, vicvars>>

\* line 1082: the sweep is over, fillin returns to main
RouteDone ==
  /\ pc = "route"
  /\ t = 1
  /\ pc' = "main"
  /\ UNCHANGED <<dem, topo, cur, stack, raises, routevars, mainvars, topvars, stdout, vicvars>>

\* -------------------------------------------------------------------- main
\* values main's uninitialised int cnt (line 106) may hold when first read
UninitCnt == {0 - 1, 0, 1}

\* lines 204-211: the number of nodata cells of the filled dem
NodataCells(tp) == Cardinality({c \in Cells : tp[c] = nodata})

\* Topindex, lines 297-320: the active-cell count; none ends the run there
TopindexCount(tp) == NCells - NodataCells(tp)

\* lines 204-225: count, then either Topindex or the message
MainCheck ==
  /\ pc = "main"
  /\ \E c0 \in UninitCnt :
       /\ cnt' = c0 + NodataCells(topo)
       /\ IF cnt' < lattice_size_y * lattice_size_x
          THEN /\ entered' = TRUE
               /\ stdout' = stdout
               /\ pc' = IF TopindexCount(topo) = 0 THEN "exit" ELSE "topindex"
          ELSE /\ entered' = FALSE
               /\ stdout' = Append(stdout, "No valid value in this grid")
               /\ pc' = "return"
  /\ UNCHANGED <<dem, topo, cur, stack, raises, routevars, topvars, vicvars>>

\* ---------------------------------------------------------------- Topindex
\* #define WETLANDTHRESH, WATERTHRESH: the wetness indices of wetland and water
WETLANDTHRESH == 13552
WATERTHRESH == 216623

\* xneighbor, yneighbor (lines 244-245), directions n = 0..7 at positions 1..8;
\* dem[y][x] of Topindex is topo[x+1][y+1] (main, line 206)
xneighbor == <<0 - 1, 0, 1, 1, 1, 0, 0 - 1, 0 - 1>>
yneighbor == <<1, 1, 1, 0, 0 - 1, 0 - 1, 0 - 1, 0>>

NeighborElevClamped(tp, c, k) ==
  tp[<<IF c[1] + xneighbor[k] \in Cols THEN c[1] + xneighbor[k] ELSE c[1],
       IF c[2] + yneighbor[k] \in Rows THEN c[2] + yneighbor[k] ELSE c[2]>>]

\* lines 364-386 and 476-488: neighbor_elev[n]; a step that leaves the grid
\* leaves OUTSIDEBASIN there, which line 384 turns into nodata
NeighborElev(tp, c, k) ==
  IF c[1] + xneighbor[k] \in Cols /\ c[2] + yneighbor[k] \in Rows
  THEN tp[<<c[1] + xneighbor[k], c[2] + yneighbor[k]>>]
  ELSE nodata

\* line 389: the directions with a valid, strictly lower neighbour
LowerDirs(tp, c) ==
  {k \in 1..8 : NeighborElev(tp, c, k) < tp[c] /\ NeighborElev(tp, c, k) # nodata}

\* n = 0, 2, 4, 6 are the diagonal directions
Diagonal(k) == k \in {1, 3, 5, 7}

\* lines 394, 400, 406: 0.2*dx + 0.2*dy or 0.6*dx, in units of 0.2*deltax
ContourWeight(k) == IF Diagonal(k) THEN 2 ELSE 3

\* lines 393, 399, 405: temp_slope[n] * deltax in ten-thousandths, for a drop
\* of e hundredths of a metre (1/sqrt(2) taken as 0.71)
TempSlope(e, k) == IF Diagonal(k) THEN 71 * e ELSE 100 * e

RECURSIVE SumOver(_, _, _)
SumOver(S, f, k) ==
  IF k = 0 THEN 0 ELSE (IF k \in S THEN f[k] ELSE 0) + SumOver(S, f, k - 1)

\* lines 419-436: VERTRES * (4*0.5/sqrt(2) + 2*0.5 + 2*0.5) / NNEIGHBORS, times
\* deltax, in ten-thousandths (VERTRES is 2.3)
TanFloor == 9816

\* lines 394-429: contour_length[y][x] in units of 0.2*deltax
ContourLength(tp, c) ==
  LET L == LowerDirs(tp, c)
  IN IF L = {} THEN <<20, 1>>
     ELSE Frac(SumOver(L, [k \in 1..8 |-> ContourWeight(k)], 8), Cardinality(L))

\* lines 395-438: the weighted mean slope, never below the floor
TanbetaPixel(tp, c) ==
  LET L == LowerDirs(tp, c)
      mean == SumOver(L, [k \in 1..8 |->
                            TempSlope(tp[c] - NeighborElev(tp, c, k), k) * ContourWeight(k)], 8)
              \div SumOver(L, [k \in 1..8 |-> ContourWeight(k)], 8)
  IN IF L = {} THEN TanFloor
     ELSE IF mean < TanFloor THEN TanFloor ELSE mean

\* line 441: flowacc / (contour_length * tanbeta_pixel), with flowacc in
\* hundredths of a cell area; the quotient keeps three significant digits
WetnessIndex(fl, cl, tb, d) ==
  ((((((fl[1] * 100) \div fl[2]) * d * d * 10) \div tb) * 50 * cl[2]) \div cl[1])

\* lines 443-450
IsWater(w) == w >= WATERTHRESH
IsWetlandOrWater(w) == w >= WETLANDTHRESH
IsWetland(w) == ~IsWater(w) /\ w >= WETLANDTHRESH /\ w < WATERTHRESH

Active(tp) == {c \in Cells : tp[c] # nodata}

\* lines 490-508: the directions lower in elevation and higher in wetness
\* index, and the mean drop per distance over them
NeighborTwi(wi, c, k) ==
  IF c[1] + xneighbor[k] \in Cols /\ c[2] + yneighbor[k] \in Rows
  THEN wi[<<c[1] + xneighbor[k], c[2] + yneighbor[k]>>]
  ELSE nodata

DropDirs(tp, wi, c) ==
  {k \in LowerDirs(tp, c) : NeighborTwi(wi, c, k) > wi[c]}

AveDelevOf(tp, wi, c) ==
  LET L == DropDirs(tp, wi, c)
  IN IF L = {} THEN <<0, 1>>
     ELSE Frac(SumOver(L, [k \in 1..8 |->
                             TempSlope(tp[c] - NeighborElev(tp, c, k), k)], 8),
               Cardinality(L))

\* lines 443-461: the counts of active, water and wetland cells, and the
\* fractions taken from them
VegOf(totalVeg, waterVeg, wetlandVeg) ==
  [totalVeg |-> totalVeg,
   uplandVeg |-> Frac(totalVeg - waterVeg - wetlandVeg, totalVeg),
   wetlandVeg |-> Frac(wetlandVeg, totalVeg),
   waterVeg |-> Frac(waterVeg, totalVeg)]

\* cell sizes deltax = deltay of the DEM header, in metres
CellSizes == {100, 200}

\* lines 335-345: OrderedCellsDEM[count] is written for count = 0, 1, ... once
\* per cell that is not nodata
FillUses(tp) == 0..(NCells - NodataCells(tp) - 1)

\* lines 520-525: each of the count turns of the loop writes
\* OrderedCellsTWI[count], not OrderedCellsTWI[i]
ResetUses(count) == IF count > 0 THEN {count} ELSE {}

\* lines 527-568: items 0..n-1 are written, sorted by quick, and read back as
\* [count-1-k] and [k] for k = 0..n-1
RankUses(n) == 0..(n - 1)

\* lines 322-512: the tan(beta) and wetness-index pass, the classification
\* counts and fractions, and the elevation-drop pass.  Memoryalloc zeroes the
\* grids, so a nodata cell reads 0 in each.
TopindexPass ==
  /\ pc = "topindex"
  /\ deltax' \in CellSizes
  /\ contour_length' = Filled(
       [c \in Cells |-> IF topo[c] # nodata THEN ContourLength(topo, c) ELSE <<0, 1>>])
  /\ tanbeta_pixel' = Filled(
       [c \in Cells |-> IF topo[c] # nodata THEN TanbetaPixel(topo, c) ELSE 0])
  /\ wetnessindex' = Filled(
       [c \in Cells |->
          IF topo[c] # nodata
          THEN WetnessIndex(flow[c], contour_length'[c], tanbeta_pixel'[c], deltax')
          ELSE 0])
  /\ AveDelev' = Filled(
       [c \in Cells |-> IF topo[c] # nodata THEN AveDelevOf(topo, wetnessindex', c)
                        ELSE <<0, 1>>])
  /\ veg' = VegOf(Cardinality({c \in Active(topo) : wetnessindex'[c] # nodata}),
                  Cardinality({c \in Active(topo) : IsWater(wetnessindex'[c])}),
                  Cardinality({c \in Active(topo) : IsWetland(wetnessindex'[c])}))
  /\ used' = [count |-> NCells - NodataCells(topo),
               DEM |-> FillUses(topo),
               TWI |-> {}]
  /\ pc' = "ranking"
  /\ UNCHANGED <<dem, topo, cur, stack, raises, routevars, mainvars, stdout, vicvars,
                 items, ranked>>

\* qs, line 655: while(item[i].Rank < x.Rank && i<right) i++
RECURSIVE qsUp(_, _, _, _)
qsUp(item, i, x, right) ==
  IF item[i].Rank < x /\ i < right THEN qsUp(item, i + 1, x, right) ELSE i

\* line 656: while(x.Rank < item[j].Rank && j>left) j--
RECURSIVE qsDown(_, _, _, _)
qsDown(item, j, x, left) ==
  IF x < item[j].Rank /\ j > left THEN qsDown(item, j - 1, x, left) ELSE j

\* lines 654-666: the do-while loop; yields <<item, i, j>>
RECURSIVE qsLoop(_, _, _, _, _, _)
qsLoop(item, i, j, x, left, right) ==
  LET i2 == qsUp(item, i, x, right)
      j2 == qsDown(item, j, x, left)
      swapped == IF i2 <= j2 THEN Swap(item, i2, j2) ELSE item
      i3 == IF i2 <= j2 THEN i2 + 1 ELSE i2
      j3 == IF i2 <= j2 THEN j2 - 1 ELSE j2
  IN IF i3 <= j3 THEN qsLoop(swapped, i3, j3, x, left, right)
     ELSE <<swapped, i3, j3>>

\* qs without the call of line 669 for the upper part
RECURSIVE qsLowerOnly(_, _, _)
qsLowerOnly(item, left, right) ==
  LET p == qsLoop(item, left, right,
                  item[((left + right - 2) \div 2) + 1].Rank, left, right)
  IN IF left < p[3] THEN qsLowerOnly(p[1], left, p[3]) ELSE p[1]

\* lines 646-672, on positions 1..count (item[k-1] of the code is item[k] here)
RECURSIVE qs(_, _, _)
qs(item, left, right) ==
  LET p == qsLoop(item, left, right,
                  item[((left + right - 2) \div 2) + 1].Rank, left, right)
      lo == IF left < p[3] THEN qs(p[1], left, p[3]) ELSE p[1]
  IN IF p[2] < right THEN qs(lo, p[2], right) ELSE lo

\* lines 635-639
quick(item, count) == qs(item, 1, count)

\* the positions of item that the scan of line 655 reads, from i on
RECURSIVE qsUpReads(_, _, _, _)
qsUpReads(item, i, x, right) ==
  {i} \cup (IF i \in DOMAIN item /\ item[i].Rank < x /\ i < right
            THEN qsUpReads(item, i + 1, x, right) ELSE {})

\* the positions that the scan of line 656 reads, from j down
RECURSIVE qsDownReads(_, _, _, _)
qsDownReads(item, j, x, left) ==
  {j} \cup (IF j \in DOMAIN item /\ x < item[j].Rank /\ j > left
            THEN qsDownReads(item, j - 1, x, left) ELSE {})

\* the positions read or written by the do-while loop of lines 654-666
RECURSIVE qsLoopUses(_, _, _, _, _, _)
qsLoopUses(item, i, j, x, left, right) ==
  LET i2 == qsUp(item, i, x, right)
      j2 == qsDown(item, j, x, left)
      swapped == IF i2 <= j2 THEN Swap(item, i2, j2) ELSE item
      i3 == IF i2 <= j2 THEN i2 + 1 ELSE i2
      j3 == IF i2 <= j2 THEN j2 - 1 ELSE j2
  IN qsUpReads(item, i, x, right) \cup qsDownReads(item, j, x, left)
       \cup (IF i2 <= j2 THEN {i2, j2} ELSE {})
       \cup (IF i3 <= j3 THEN qsLoopUses(swapped, i3, j3, x, left, right) ELSE {})

\* the positions of item used by qs(item, left, right) and the calls below it
RECURSIVE qsUses(_, _, _)
qsUses(item, left, right) ==
  LET mid == ((left + right - 2) \div 2) + 1
      p == qsLoop(item, left, right, item[mid].Rank, left, right)
      lo == IF left < p[3] THEN qs(p[1], left, p[3]) ELSE p[1]
  IN {mid} \cup qsLoopUses(item, left, right, item[mid].Rank, left, right)
       \cup (IF left < p[3] THEN qsUses(p[1], left, p[3]) ELSE {})
       \cup (IF p[2] < right THEN qsUses(lo, p[2], right) ELSE {})

\* the cells in the order of the row and column loops (lines 529-531)
ScanOrder == [k \in 1..NCells |-> CellOf(k)]

\* lines 529-544: the wetland cells, keyed by wetness index and by elevation
OrderedCellsTWI(tp, wi) ==
  LET cs == SelectSeq(ScanOrder, LAMBDA c : wi[c] >= WETLANDTHRESH /\ wi[c] < WATERTHRESH)
  IN Filled([k \in 1..Len(cs) |-> [Rank |-> wi[cs[k]], c |-> cs[k]]])

OrderedCellsDEM(tp, wi) ==
  LET cs == SelectSeq(ScanOrder, LAMBDA c : wi[c] >= WETLANDTHRESH /\ wi[c] < WATERTHRESH)
  IN Filled([k \in 1..Len(cs) |-> [Rank |-> tp[cs[k]], c |-> cs[k]]])

\* whole cells behind a fraction of totalVeg
CountOf(f, totalVeg) == (f[1] * totalVeg) \div f[2]

\* ------------------------------------------------------------------- input
\* DEMs within the bounds: each side of the outer ring holds one value, the
\* interior cells are free
GridOf(top, bottom, left, right, inner) ==
  [c \in Cells |->
     IF c[2] = 1 THEN top
     ELSE IF c[2] = lattice_size_y THEN bottom
     ELSE IF c[1] = 1 THEN left
     ELSE IF c[1] = lattice_size_x THEN right
     ELSE inner[c]]

InnerCells == {c \in Cells : Interior(c[1], c[2])}

InputGrids ==
  {GridOf(s[1], s[2], s[3], s[4], inner) :
     s \in Vals \X Vals \X Vals \X Vals, inner \in [InnerCells -> Vals]}

\* Topindex has not run
TopIdle ==
  /\ deltax = 0
  /\ contour_length = <<>>
  /\ tanbeta_pixel = <<>>
  /\ wetnessindex = <<>>
  /\ AveDelev = <<>>
  /\ veg = <<>>
  /\ used = <<>>

\* no quick call is under study
SortIdle ==
  /\ items = <<>>
  /\ ranked = <<>>

\* no VICcalculation call is under study
VICIdle ==
  /\ arg = <<>>
  /\ option = ""
  /\ vpc = "idle"
  /\ bins = <<>>
  /\ WetlandBin = <<>>
  /\ walk = <<>>
  /\ prof = <<>>
  /\ lakeRun = <<>>

\* ---------------------------------------------------------- VICcalculation
\* Depths and profile elevations are in units of 0.0025 m, so that
\* LakeDepth/LakeBins is whole; area fractions are exact fractions.
FracSub(a, b) == FracAdd(a, <<0 - b[1], b[2]>>)
FracLeq(a, b) == a[1] * b[2] <= b[1] * a[2]
FracDivInt(a, k) == LET g == GCD(a[1], k) IN Frac(a[1] \div g, a[2] * (k \div g))
FracAbs(a) == IF a[1] < 0 THEN <<0 - a[1], a[2]>> ELSE a

\* VIC[r][i]: Topindex fills the first entries, Memoryalloc zeroed the rest
VICAt(row, i) == IF i < Len(row) THEN row[i + 1] ELSE 0

\* lines 705-720, with LakeArea = waterVeg*totalVeg*deltax*deltay/1e6 = water*km2
LakeBinsOf(water) == IF water > 0 THEN 4 ELSE 0
LakeDepthOf(water, km2) ==
  IF water > 0
  THEN IF 10000 * (water * km2) < 409375
       THEN 4 * (704 - 7 * (water * km2))
       ELSE 4 * 417
  ELSE 0

\* lines 722-731: ceil(wetlandVeg / 0.091), at least 5
WetBinsOf(wetland, totalVeg) ==
  IF wetland > 0
  THEN LET c == (1000 * wetland + 91 * totalVeg - 1) \div (91 * totalVeg)
       IN IF c < 5 THEN 5 ELSE c
  ELSE 0

\* lines 694 and 730
AreaCriteria(wetland, totalVeg) ==
  IF wetland > 0 THEN Frac(wetland, totalVeg * WetBinsOf(wetland, totalVeg))
  ELSE <<91, 1000>>

\* lines 733-736
ROWSOf(opt) == IF opt = "SEA" THEN 5 ELSE 2

\* lines 705-752.  calloc(0, ...) may return NULL, and line 746 then takes it
\* for a failed allocation and leaves with exit(8).
VICSetup ==
  /\ vpc = "call"
  /\ bins' = [LakeBins |-> LakeBinsOf(arg.water),
              LakeDepth |-> LakeDepthOf(arg.water, arg.km2),
              WetBins |-> WetBinsOf(arg.wetland, arg.totalVeg),
              areacriteria |-> AreaCriteria(arg.wetland, arg.totalVeg),
              ROWS |-> ROWSOf(option)]
  /\ WetlandBin' =
       LET nb == WetBinsOf(arg.wetland, arg.totalVeg)
       IN [area |-> [b \in 0..(nb - 1) |-> <<0, 1>>],
           twi |-> [b \in 0..(nb - 1) |-> <<0, 1>>],
           elev |-> [b \in 0..(nb - 1) |-> 0]]
  /\ walk' = [i |-> 0, counter |-> 0, cnt |-> 0, oob |-> FALSE]
  /\ \/ vpc' = "walk"
     \/ WetBinsOf(arg.wetland, arg.totalVeg) = 0 /\ vpc' = "exit8"
  /\ UNCHANGED <<pipevars, stdout, arg, option, prof, lakeRun>>

BinClosesWithoutLast(area, i, n, totalVeg, crit, roundUp) ==
  LET q == FracDivInt(area, totalVeg)
  IN IF q = crit THEN ~roundUp ELSE FracLeq(crit, q)

\* line 766: the bin's share has reached areacriteria, or this is the last cell.
\* When the two sides are equal as real numbers the rounding of the float
\* areacriteria decides: roundUp says it lies above the double on the left.
BinCloses(area, i, n, totalVeg, crit, roundUp) ==
  \/ LET q == FracDivInt(area, totalVeg)
     IN IF q = crit THEN ~roundUp ELSE FracLeq(crit, q)
  \/ i = n - 1

CloseBinAllRows(WB, c, totalVeg, k, opt) ==
  [WB EXCEPT !.area[c] = IF opt = "SEA" THEN FracDivInt(FracDivInt(@, totalVeg), k)
                         ELSE FracDivInt(@, totalVeg),
             !.twi[c] = IF opt = "SEA" THEN FracDivInt(@, k) ELSE @]

\* lines 768-773: the area row becomes a fraction, the SEA rows become means
CloseBin(WB, c, totalVeg, k, opt) ==
  [WB EXCEPT !.area[c] = FracDivInt(@, totalVeg),
             !.twi[c] = IF opt = "SEA" THEN FracDivInt(@, k) ELSE @]

\* a bin that keeps the elevation of the first cell it receives
AddCellKeepFirst(WB, c, i, opt) ==
  [WB EXCEPT !.area[c] = FracAdd(@, <<1, 1>>),
             !.twi[c] = IF opt = "SEA" THEN FracAdd(@, <<VICAt(arg.VIC1, i), 1>>) ELSE @,
             !.elev[c] = IF WB.area[c] = <<0, 1>> THEN VICAt(arg.VIC4, i) ELSE @]

\* lines 755-763: cell i is added to bin c
AddCell(WB, c, i, opt) ==
  [WB EXCEPT !.area[c] = FracAdd(@, <<1, 1>>),
             !.twi[c] = IF opt = "SEA" THEN FracAdd(@, <<VICAt(arg.VIC1, i), 1>>) ELSE @,
             !.elev[c] = VICAt(arg.VIC4, i)]

\* lines 753-778: one turn of the bin walk.  A write with counter >= WetBins
\* lands outside the rows calloc returned: what line 766 then reads is not
\* the model's to say, so either outcome of the test is possible.
BinWalkStep ==
  /\ vpc = "walk"
  /\ walk.i < arg.n
  /\ IF walk.counter < bins.WetBins
     THEN LET WB1 == AddCell(WetlandBin, walk.counter, walk.i, option)
              closes == BinCloses(WB1.area[walk.counter], walk.i, arg.n,
                                  arg.totalVeg, bins.areacriteria, arg.roundUp)
          IN /\ WetlandBin' = IF closes
                              THEN CloseBin(WB1, walk.counter, arg.totalVeg,
                                            walk.cnt + 1, option)
                              ELSE WB1
             /\ walk' = [i |-> walk.i + 1,
                         counter |-> IF closes THEN walk.counter + 1 ELSE walk.counter,
                         cnt |-> IF closes THEN 0 ELSE walk.cnt + 1,
                         oob |-> walk.oob]
     ELSE \E closes \in BOOLEAN :
             /\ (walk.i = arg.n - 1) => closes
             /\ WetlandBin' = WetlandBin
             /\ walk' = [i |-> walk.i + 1,
                         counter |-> IF closes THEN walk.counter + 1 ELSE walk.counter,
                         cnt |-> IF closes THEN 0 ELSE walk.cnt + 1,
                         oob |-> TRUE]
  /\ UNCHANGED <<pipevars, stdout, arg, option, vpc, bins, prof, lakeRun>>

\* sqrt(i/4) for the four lake bins, in ten-thousandths (line 819)
SqrtQuarter == <<5000, 7071, 8660, 10000>>

\* lines 811, 819 and 837
RECURSIVE AreaSumAt(_, _, _)
AreaSumAt(b, WB, i) ==
  IF i = 0 THEN <<0, 1>>
  ELSE IF i <= b.LakeBins THEN Frac(arg.water * SqrtQuarter[i], arg.totalVeg * 10000)
  ELSE FracAdd(AreaSumAt(b, WB, i - 1), WB.area[i - (b.LakeBins + 1)])

\* lines 817 and 839-842
BathSumAt(b, WB, i) ==
  IF i <= b.LakeBins THEN i * (b.LakeDepth \div 4)
  ELSE WB.elev[i - (b.LakeBins + 1)] - VICAt(arg.VIC4, 0)
       + (IF i > 1 THEN b.LakeDepth ELSE 0)

\* line 850: (VIC[1][0] - WetlandBin[1][bin]) / (VIC[1][0] - WetlandBin[1][WetBins-1])
SeaRatio(b, WB, i) ==
  LET top == <<VICAt(arg.VIC1, 0), 1>>
      num == FracSub(top, WB.twi[i - (b.LakeBins + 1)])
      den == FracSub(top, WB.twi[b.WetBins - 1])
  IN IF den[1] = 0 THEN "nan"
     ELSE Frac(num[1] * den[2], num[2] * den[1])

\* lines 816 and 844-857; [m, r] stands for m + ElevRange * r
DemSumAt(b, WB, i, opt) ==
  IF i <= b.LakeBins THEN [m |-> i * (b.LakeDepth \div 4), r |-> <<0, 1>>]
  ELSE IF opt = "SEA"
       THEN IF i > 1 THEN [m |-> b.LakeDepth, r |-> SeaRatio(b, WB, i)]
            ELSE [m |-> 0, r |-> <<1, 1>>]
       ELSE [m |-> BathSumAt(b, WB, i), r |-> <<0, 1>>]

\* lines 824 and 830
TwiAt(b, WB, i) ==
  IF i = 0 THEN <<0, 1>>
  ELSE IF i <= b.LakeBins THEN <<VICAt(arg.VIC1, 0), 1>>
  ELSE WB.twi[i - (b.LakeBins + 1)]

\* lines 780-881
Assemble ==
  /\ vpc = "assemble"
  /\ prof' = LET nb == bins.WetBins + bins.LakeBins
             IN [AREASUM |-> [i \in 0..nb |-> AreaSumAt(bins, WetlandBin, i)],
                 BATHSUM |-> [i \in 0..nb |-> BathSumAt(bins, WetlandBin, i)],
                 DEMSUM |-> [i \in 0..nb |-> DemSumAt(bins, WetlandBin, i, option)],
                 TWI |-> [i \in 0..nb |-> IF option = "SEA"
                                          THEN TwiAt(bins, WetlandBin, i)
                                          ELSE <<0, 1>>]]
  /\ vpc' = "check"
  /\ UNCHANGED <<pipevars, stdout, arg, option, bins, WetlandBin, walk, lakeRun>>

\* line 778: the walk is over.  After a write outside WetlandBin the heap is
\* damaged: the allocator may end the run at the next calloc, or not notice.
WalkDone ==
  /\ vpc = "walk"
  /\ walk.i >= arg.n
  /\ \/ vpc' = "assemble"
     \/ walk.oob /\ vpc' = "crash"
  /\ UNCHANGED <<pipevars, stdout, arg, option, bins, WetlandBin, walk, prof, lakeRun>>

\* AREASUM[WetBins+LakeBins] - (waterVeg + wetlandVeg)
AreaExcess ==
  FracSub(prof.AREASUM[bins.WetBins + bins.LakeBins],
          Frac(arg.water + arg.wetland, arg.totalVeg))

\* line 884: the excess is above 1e-5
TooLarge(x) == x[1] > 0 /\ x[1] * 100000 > x[2]

\* lines 884-888
Check ==
  /\ vpc = "check"
  /\ vpc' = IF TooLarge(AreaExcess) THEN "abort" ELSE "emit"
  /\ UNCHANGED <<pipevars, stdout, arg, option, bins, WetlandBin, walk, prof, lakeRun>>

\* the tuples of bins 1 up to nb
BodyLineForward(opt, nb) ==
  [i \in 1..nb |->
     IF opt = "SEA" THEN <<prof.DEMSUM[i], prof.AREASUM[i], prof.TWI[i]>>
     ELSE <<prof.DEMSUM[i], prof.AREASUM[i]>>]

\* lines 904-907 and 925-928: the tuples of bins nb down to 1 (the SEA tuple's
\* fourth field, the slope, is left out: tanbeta is not part of this model)
BodyLine(opt, nb) ==
  [k \in 1..nb |->
     LET i == nb + 1 - k
     IN IF opt = "SEA" THEN <<prof.DEMSUM[i], prof.AREASUM[i], prof.TWI[i]>>
        ELSE <<prof.DEMSUM[i], prof.AREASUM[i]>>]

\* lines 890-933
Emit ==
  /\ vpc = "emit"
  /\ LET nb == bins.LakeBins + bins.WetBins
         digit == IF option = "SEA" THEN 0 ELSE 1
     IN stdout' =
          IF option \notin {"SEA", "LAKE"} THEN stdout
          ELSE IF nb = 0
               THEN <<[lakeidx |-> digit, nbins |-> 1, depth |-> 0],
                      IF option = "SEA" THEN <<0, 0, 0, 0>> ELSE <<0, 0>> >>
               ELSE <<[lakeidx |-> digit, nbins |-> nb, depth |-> bins.LakeDepth + 4],
                      BodyLine(option, nb)>>
  /\ vpc' = "done"
  /\ UNCHANGED <<pipevars, arg, option, bins, WetlandBin, walk, prof, lakeRun>>

\* the same arguments are run again with the other schema
NextRun ==
  /\ vpc \in {"done", "abort", "crash", "exit8"}
  /\ option = "LAKE"
  /\ lakeRun' = [vpc |-> vpc, bins |-> bins, prof |-> prof, stdout |-> stdout]
  /\ option' = "SEA"
  /\ vpc' = "call"
  /\ stdout' = <<>>
  /\ bins' = <<>>
  /\ WetlandBin' = <<>>
  /\ walk' = <<>>
  /\ prof' = <<>>
  /\ UNCHANGED <<pipevars, arg>>

\* ------------------------------------------ the arguments of VICcalculation
AscSeqs(V, len) ==
  {q \in [1..len -> V] : \A x \in 1..(len - 1) : q[x] <= q[x + 1]}
DescSeqs(V, len) ==
  {q \in [1..len -> V] : \A x \in 1..(len - 1) : q[x] >= q[x + 1]}

\* wetness indices of wetland cells, and elevations of wetland cells
TwiVals == {WETLANDTHRESH, WETLANDTHRESH + 2}
ElevVals == {4, 8}

\* no pipeline run is under study
PipeIdle ==
  /\ dem = <<>>
  /\ topo = <<>>
  /\ flow = <<>>
  /\ pc = "idle"
  /\ cur = 0
  /\ stack = <<>>
  /\ raises = 0
  /\ topovecind = <<>>
  /\ t = 0
  /\ visited = {}
  /\ cnt = "unset"
  /\ entered = FALSE
  /\ TopIdle

\* Topindex, lines 459-461 and 519-573: counts of active, water and wetland
\* cells; VIC[1] in descending wetness index and VIC[4] in ascending elevation
\* over the wetland cells; n is the wetland count, or the active count when
\* there is no wetland cell (line 519)
CallArgs(tv, w, l, n, s1, s4, u, a) ==
  [totalVeg |-> tv, water |-> w, wetland |-> l, n |-> n,
   VIC1 |-> s1, VIC4 |-> s4, roundUp |-> u, km2 |-> a]

\* deltax*deltay of one cell, in whole square kilometres
CellAreas == {4, 50}

\* the float areacriteria can round either way only where a bin can hold
\* exactly its share, i.e. where WetBins divides the wetland count
Roundings(tv, l) ==
  IF l > 0 /\ l % WetBinsOf(l, tv) = 0 THEN BOOLEAN ELSE {FALSE}

VICIdleAt(opts) ==
  /\ PipeIdle
  /\ SortIdle
  /\ stdout = <<>>
  /\ option \in opts
  /\ vpc = "call"
  /\ bins = <<>>
  /\ WetlandBin = <<>>
  /\ walk = <<>>
  /\ prof = <<>>
  /\ lakeRun = <<>>

VICInit ==
  /\ VICIdleAt({"LAKE", "OTHER"})
  /\ \E tv \in 1..MaxActive, w \in 0..MaxWater, l \in 0..MaxWetland :
       /\ w + l <= tv
       /\ \E s1 \in DescSeqs(TwiVals, l), s4 \in AscSeqs(ElevVals, l),
             u \in Roundings(tv, l),
             a \in (IF w > 0 THEN CellAreas ELSE {4}) :
            arg = CallArgs(tv, w, l, IF l > 0 THEN l ELSE tv, s1, s4, u, a)

VICNext ==
  \/ VICSetup
  \/ BinWalkStep
  \/ WalkDone
  \/ Assemble
  \/ Check
  \/ Emit
  \/ NextRun

\* VICcalculation as Topindex calls it
SpecVIC == VICInit /\ [][VICNext]_vars

\* VICcalculation called with any n: the function's own interface
VICCallInit ==
  /\ VICIdleAt({"LAKE"})
  /\ \E tv \in 1..MaxCallActive, w \in 0..MaxWater, l \in 0..MaxWetland :
       /\ w + l <= tv
       /\ \E s1 \in DescSeqs(TwiVals, l), s4 \in AscSeqs(ElevVals, l),
             u \in Roundings(tv, l),
             a \in (IF w > 0 THEN CellAreas ELSE {4}), n \in 0..tv :
            arg = CallArgs(tv, w, l, n, s1, s4, u, a)

SpecVICCall == VICCallInit /\ [][VICNext]_vars

\* ---------------------------------------------------------- quick alone
\* arrays of count >= 1 items: any keys, each item with its own payload
ItemArrays ==
  UNION {{[k \in 1..n |-> [Rank |-> r[k], c |-> k]] : r \in [1..n -> 0..MaxRank]} :
           n \in 1..MaxItems}

QuickInit ==
  /\ PipeIdle
  /\ stdout = <<>>
  /\ VICIdle
  /\ items \in ItemArrays
  /\ ranked = <<>>

\* quick(item, count), lines 635-639
QuickCall ==
  /\ items # <<>>
  /\ ranked = <<>>
  /\ ranked' = [item |-> quick(items, Len(items)),
                uses |-> qsUses(items, 1, Len(items))]
  /\ UNCHANGED <<dem, fillvars, routevars, mainvars, deltax, contour_length,
                 tanbeta_pixel, wetnessindex, AveDelev, veg, used, items, stdout, vicvars>>

SpecQuick == QuickInit /\ [][QuickCall]_vars

\* ------------------------------------------------------ the whole program
\* the schemas of argv[3]
Options == {"LAKE", "SEA", "OTHER"}

\* lines 519-573: rank the wetland cells and call VICcalculation.  The loop of
\* lines 520-525 writes OrderedCellsTWI[count], one item past the calloc'ed
\* array: the damaged heap may end the run, or go unnoticed.  Elevations are
\* passed in units of 0.0025 m.
TopindexRank ==
  /\ pc = "ranking"
  /\ \/ /\ pc' = "crash"
        /\ UNCHANGED <<stdout, vicvars>>
     \/ /\ pc' = "viccall"
        /\ stdout' = stdout
        /\ \E twi \in {IF veg.wetlandVeg[1] > 0
                        THEN quick(OrderedCellsTWI(topo, wetnessindex),
                                   Len(OrderedCellsTWI(topo, wetnessindex)))
                        ELSE <<>>},
              ele \in {IF veg.wetlandVeg[1] > 0
                        THEN quick(OrderedCellsDEM(topo, wetnessindex),
                                   Len(OrderedCellsDEM(topo, wetnessindex)))
                        ELSE <<>>} :
             \E count \in {IF veg.wetlandVeg[1] > 0 THEN Len(twi)
                            ELSE NCells - NodataCells(topo)} :
               \E VIC1 \in {IF veg.wetlandVeg[1] > 0
                             THEN Filled([k \in 1..count |->
                                            wetnessindex[twi[count + 1 - k].c]])
                             ELSE <<>>},
                  VIC4 \in {IF veg.wetlandVeg[1] > 0
                             THEN Filled([k \in 1..count |-> 4 * topo[ele[k].c]])
                             ELSE <<>>} :
                 \E u \in Roundings(veg.totalVeg, CountOf(veg.wetlandVeg, veg.totalVeg)),
                    opt \in Options :
                   /\ arg' = CallArgs(veg.totalVeg,
                                      CountOf(veg.waterVeg, veg.totalVeg),
                                      CountOf(veg.wetlandVeg, veg.totalVeg), count,
                                      VIC1, VIC4, u, Frac(deltax * deltax, 1000000))
                   /\ option' = opt
                   /\ vpc' = "call"
                   /\ UNCHANGED <<bins, WetlandBin, walk, prof, lakeRun>>
  /\ used' = [used EXCEPT
                !.DEM = @ \cup (IF veg.wetlandVeg[1] > 0
                                THEN RankUses(Len(OrderedCellsDEM(topo, wetnessindex)))
                                ELSE {}),
                !.TWI = ResetUses(used.count)
                          \cup (IF veg.wetlandVeg[1] > 0
                                THEN RankUses(Len(OrderedCellsTWI(topo, wetnessindex)))
                                ELSE {})]
  /\ UNCHANGED <<dem, topo, cur, stack, raises, routevars, mainvars, deltax,
                 contour_length, tanbeta_pixel, wetnessindex, AveDelev, veg,
                 items, ranked>>

\* fillin, lines 1049-1054: topo is the dem, every cell starts with its own area
Init ==
  /\ dem \in InputGrids
  /\ topo = dem
  /\ flow = [c \in Cells |-> <<1, 1>>]
  /\ pc = "fill"
  /\ cur = 1
  /\ stack = <<>>
  /\ raises = 0
  /\ topovecind = <<>>
  /\ t = 0
  /\ visited = {}
  /\ cnt = "unset"
  /\ entered = FALSE
  /\ TopIdle
  /\ SortIdle
  /\ stdout = <<>>
  /\ VICIdle

Next ==
  \/ FillinLoop
  \/ FillRecurse
  \/ FillReturn
  \/ FillDone
  \/ RouteStep
  \/ RouteDone
  \/ MainCheck
  \/ TopindexPass
  \/ TopindexRank

Spec == Init /\ [][Next]_vars

\* fillin alone, its sweep free in the order of equal elevations, on the
\* grids in which no value is held by more than MaxTie cells
TiesInit ==
  /\ Init
  /\ \A v \in Vals : Cardinality({c \in Cells : dem[c] = v}) <= MaxTie

TiesNext ==
  \/ FillinLoop
  \/ FillRecurse
  \/ FillReturn
  \/ FillDone
  \/ RouteAnyTie
  \/ RouteDone

SpecTies == TiesInit /\ [][TiesNext]_vars

\* ------------------------------------------------------------- properties
OnRing(c) ==
  (c[1] = 1) \/ (c[1] = lattice_size_x) \/ (c[2] = 1) \/ (c[2] = lattice_size_y)

NeighborSet(c) == {Neighbors(c[1], c[2])[k] : k \in 1..8}

InTopindex == pc \in {"topindex", "ranking", "viccall", "crash"}
FillReturned == pc \in {"route", "main", "exit", "return"} \/ InTopindex
Routed == pc \in {"main", "exit", "return"} \/ InTopindex
MainEnded == pc \in {"exit", "return"} \/ InTopindex

\* C1: once fillin's fill loop has returned, every interior non-nodata cell has
\* a non-nodata neighbour strictly lower than itself.
C1_NoInteriorSink ==
  FillReturned =>
    \A c \in Cells :
      (~OnRing(c) /\ topo[c] # nodata) =>
        \E n \in NeighborSet(c) : topo[n] # nodata /\ topo[n] < topo[c]

\* a fill that raised both a pit and, through the recursion, its neighbour
C1_Witness ==
  /\ FillReturned
  /\ Cardinality({c \in Cells : topo[c] > dem[c]}) >= 2

\* C2: the fill terminates on every grid: the recursion never runs until the
\* call stack is exhausted.
C2_FillTerminates == pc # "overflow"

\* the cells that drain: the valid ring cells and every valid interior cell
\* joined to one of them through valid interior cells
RECURSIVE Grow(_)
Grow(S) ==
  LET S2 == S \cup {c \in Cells : dem[c] # nodata /\ (NeighborSet(c) \cap S) # {}}
  IN IF S2 = S THEN S ELSE Grow(S2)

Drained == Grow({c \in Cells : OnRing(c) /\ dem[c] # nodata})

\* the runs that exhaust the stack are exactly those of a grid with a valid
\* interior cell cut off from every valid ring cell
C2_OverflowOnlyWhenCutOff ==
  /\ (pc = "overflow" => \E c \in Cells : dem[c] # nodata /\ c \notin Drained)
  /\ (FillReturned => \A c \in Cells : dem[c] # nodata => c \in Drained)

\* C3: in every state, each ring cell and each nodata cell holds its input value.
C3_RingAndNodataFixed ==
  \A c \in Cells : (OnRing(c) \/ dem[c] = nodata) => topo[c] = dem[c]

\* a plateau that touches the grid edge, whose interior cell has been raised
C3_Witness ==
  \E c \in Cells :
    /\ ~OnRing(c)
    /\ topo[c] > dem[c]
    /\ \E n \in NeighborSet(c) : OnRing(n) /\ dem[n] = dem[c]
    /\ \E n \in Cells : dem[n] = nodata

\* C4: no step lowers a cell, and every cell stays at or above its input value.
C4_NeverLowered ==
  [][\A c \in Cells : topo'[c] >= topo[c] /\ topo'[c] >= dem[c]]_vars

\* a cell raised more than once
C4_Witness ==
  \E c \in Cells : dem[c] # nodata /\ topo[c] >= dem[c] + 2 * fillincrement

RECURSIVE FracSum(_, _)
FracSum(fl, S) ==
  IF S = {} THEN <<0, 1>>
  ELSE LET c == CHOOSE x \in S : TRUE IN FracAdd(fl[c], FracSum(fl, S \ {c}))

ActiveCells == {c \in Cells : topo[c] # nodata}

\* active cells with no strictly lower active neighbour: they pass nothing on
Outlets ==
  {c \in ActiveCells :
     \A n \in NeighborSet(c) : topo[n] = nodata \/ topo[n] >= topo[c]}

\* C5 as stated: after the sweep the flow summed over the whole grid is the
\* cell area times the number of active cells.
C5_TotalIsActiveArea ==
  Routed => FracSum(flow, Cells) = <<Cardinality(ActiveCells), 1>>

\* C5 amended: after the sweep the flow held by the outlet cells sums to the cell
\* area times the number of active cells, and each nodata cell holds one cell area.
C5_OutletsHoldActiveArea ==
  Routed =>
    /\ FracSum(flow, Outlets) = <<Cardinality(ActiveCells), 1>>
    /\ \A c \in Cells : topo[c] = nodata => flow[c] = <<1, 1>>

\* a routed grid with nodata cells where some cell split its flow unevenly
C5_Witness ==
  /\ Routed
  /\ \E c \in Cells : topo[c] = nodata
  /\ \E c \in Cells : flow[c][2] > 1
  /\ \E c \in Outlets : flow[c][1] > 2 * flow[c][2]
\* ------------------------------------------------ properties of the profile
\* AREASUM, DEMSUM and BATHSUM have been filled in
Assembled == vpc \in {"check", "emit", "abort", "done"}

NBins == bins.LakeBins + bins.WetBins

RECURSIVE BinAreaSum(_)
BinAreaSum(k) ==
  IF k = 0 THEN <<0, 1>> ELSE FracAdd(BinAreaSum(k - 1), WetlandBin.area[k - 1])

\* some wetland bin holds more than one cell, and some holds none
TwoCellBin ==
  \E b \in 0..(bins.WetBins - 1) : WetlandBin.area[b] = Frac(2, arg.totalVeg)
EmptyBin ==
  \E b \in 0..(bins.WetBins - 1) : WetlandBin.area[b] = <<0, 1>>

\* C6: once the profile is assembled, AREASUM[WetBins+LakeBins] is within 1e-5
\* of waterVeg + wetlandVeg for every count of water, wetland and active
\* cells; the last lake bin is exactly waterVeg and the wetland bins' areas add
\* up to wetlandVeg (each wetland cell is in exactly one bin).
C6_AreaConserved ==
  Assembled =>
    /\ ~TooLarge(FracAbs(AreaExcess))
    /\ bins.LakeBins > 0 =>
         prof.AREASUM[bins.LakeBins] = Frac(arg.water, arg.totalVeg)
    /\ arg.wetland > 0 =>
         BinAreaSum(bins.WetBins) = Frac(arg.wetland, arg.totalVeg)

C6_Witness ==
  /\ vpc = "check"
  /\ arg.water > 0
  /\ arg.wetland > 0
  /\ arg.water + arg.wetland < arg.totalVeg
  /\ TwoCellBin
  /\ EmptyBin
  /\ WetlandBin.area[walk.counter - 1] = Frac(1, arg.totalVeg)

C7_ExcessAborts ==
  (vpc \in {"emit", "done", "abort"} /\ TooLarge(AreaExcess)) =>
    (vpc = "abort" /\ stdout = <<>>)

\* m + ElevRange * r compared for the pairs the profile holds: equal m, or
\* equal r, with ElevRange > 0; a NaN compares false
DemLeq(a, b) ==
  /\ a.r # "nan"
  /\ b.r # "nan"
  /\ IF a.r = b.r THEN a.m <= b.m
     ELSE IF a.m = b.m THEN FracLeq(a.r, b.r)
     ELSE a.m <= b.m /\ FracLeq(a.r, b.r)

Emitted == vpc = "done" /\ option \in {"LAKE", "SEA"}

\* C8: in every emitted profile, in both schemas, DEMSUM[i] and AREASUM[i]
\* are non-decreasing from bin 1 to bin LakeBins+WetBins, also when some
\* wetland bins hold no cell and when there is no lake.
C8_ProfileMonotone ==
  Emitted =>
    \A i \in 1..(NBins - 1) :
      /\ DemLeq(prof.DEMSUM[i], prof.DEMSUM[i + 1])
      /\ FracLeq(prof.AREASUM[i], prof.AREASUM[i + 1])

\* the part of C8 that holds: the cumulative area never decreases
C8_AreaMonotone ==
  Emitted =>
    \A i \in 1..(NBins - 1) : FracLeq(prof.AREASUM[i], prof.AREASUM[i + 1])

\* C9: for the same arguments the LAKE run and the SEA run write the same
\* number of bins and hold the same cumulative area fraction at every bin;
\* the headers differ in the schema digit only.
C9_SchemasAgree ==
  (option = "SEA" /\ vpc = "done" /\ lakeRun.vpc = "done") =>
    /\ stdout[1].nbins = lakeRun.stdout[1].nbins
    /\ stdout[1].depth = lakeRun.stdout[1].depth
    /\ stdout[1].lakeidx = 0
    /\ lakeRun.stdout[1].lakeidx = 1
    /\ DOMAIN prof.AREASUM = DOMAIN lakeRun.prof.AREASUM
    /\ \A i \in DOMAIN prof.AREASUM : prof.AREASUM[i] = lakeRun.prof.AREASUM[i]
    /\ NBins > 0 =>
         /\ Len(stdout[2]) = Len(lakeRun.stdout[2])
         /\ \A k \in 1..Len(stdout[2]) : stdout[2][k][2] = lakeRun.stdout[2][k][2]

C9_Witness ==
  /\ option = "SEA"
  /\ vpc = "done"
  /\ lakeRun.vpc = "done"
  /\ arg.water > 0
  /\ TwoCellBin
  /\ EmptyBin
  /\ \E i \in 1..NBins : prof.DEMSUM[i] # lakeRun.prof.DEMSUM[i]


\* C10: for an all-nodata grid main prints the message and does not call Topindex.
C10_AllNodataReported ==
  (MainEnded /\ \A c \in Cells : dem[c] = nodata) =>
    (~entered /\ stdout = <<"No valid value in this grid">>)

\* sanity of the ranking: ascending, and a permutation of the indices
IndexxSorted ==
  FillReturned =>
    /\ {topovecind[k] : k \in 1..NCells} = 1..NCells
    /\ \A k \in 1..(NCells - 1) :
         TopoVec(topo)[topovecind[k]] <= TopoVec(topo)[topovecind[k + 1]]

\* the valid cells of the input grid
ValidInput == {c \in Cells : dem[c] # nodata}

\* C11: a grid that is nodata except for one cell, border or interior, ends on
\* main's no-valid-data path: Topindex's passes are not run, VICcalculation is
\* not called and no header or body line is written.
C11_SingleCellNoOutput ==
  (MainEnded /\ Cardinality(ValidInput) = 1) =>
    (pc = "return" /\ ~entered /\ stdout = <<"No valid value in this grid">>)

\* VICcalculation called for one upland cell writes a header and a body line
SingleUplandCellEmits ==
  (arg # <<>> /\ vpc = "done" /\ option \in {"LAKE", "SEA"}) =>
    ((arg.totalVeg = 1 /\ arg.water = 0 /\ arg.wetland = 0) => Len(stdout) = 2)

\* the call main's single border cell leads to
SingleCellCall ==
  /\ pc = "viccall"
  /\ Cardinality(ValidInput) = 1
  /\ arg.totalVeg = 1 /\ arg.water = 0 /\ arg.wetland = 0 /\ arg.n = 1

\* Topindex has classified the cells
Classified == pc \in {"ranking", "viccall", "crash"}

WaterCells == {c \in Active(topo) : wetnessindex[c] >= WATERTHRESH}
WetlandCells ==
  {c \in Active(topo) :
     wetnessindex[c] >= WETLANDTHRESH /\ wetnessindex[c] < WATERTHRESH}
UplandCells == {c \in Active(topo) : wetnessindex[c] < WETLANDTHRESH}

\* C12: every active cell is in exactly one of the classes water, wetland and
\* upland, totalVeg counts every active cell once, each fraction is its class's
\* share of the active cells, and the three fractions sum to 1.
C12_ClassPartition ==
  Classified =>
    /\ \A c \in Active(topo) :
         Cardinality({S \in {WaterCells, WetlandCells, UplandCells} : c \in S}) = 1
    /\ veg.totalVeg = Cardinality(Active(topo))
    /\ veg.waterVeg = Frac(Cardinality(WaterCells), veg.totalVeg)
    /\ veg.wetlandVeg = Frac(Cardinality(WetlandCells), veg.totalVeg)
    /\ veg.uplandVeg = Frac(Cardinality(UplandCells), veg.totalVeg)
    /\ FracAdd(FracAdd(veg.uplandVeg, veg.wetlandVeg), veg.waterVeg) = <<1, 1>>

\* a grid with cells of all three classes
C12_Witness ==
  /\ Classified
  /\ WaterCells # {} /\ WetlandCells # {} /\ UplandCells # {}

\* the cell a step (dx, dy) from c reaches under the clamped mapping
ClampedTarget(c, dx, dy) ==
  <<IF c[1] + dx \in Cols THEN c[1] + dx ELSE c[1],
    IF c[2] + dy \in Rows THEN c[2] + dy ELSE c[2]>>

Steps == {d \in (0 - 1..1) \X (0 - 1..1) : d # <<0, 0>>}

\* a step from c that leaves the grid
OffGrid(c, k) == ~(c[1] + xneighbor[k] \in Cols /\ c[2] + yneighbor[k] \in Rows)

\* the directions with a valid, strictly lower neighbour under the clamped mapping
LowerDirsClamped(tp, c) ==
  {k \in 1..8 : NeighborElevClamped(tp, c, k) < tp[c]
                 /\ NeighborElevClamped(tp, c, k) # nodata}

\* fill and routing look their neighbours up through the clamped mapping
FillRouteClamped ==
  \A c \in Cells :
    NeighborSet(c) = {ClampedTarget(c, d[1], d[2]) : d \in Steps}

\* C13: every stage that examines the 8 neighbours resolves a step that leaves
\* the grid by the clamped mapping: fill and routing do, and the contour length
\* of the tan(beta) pass and the directions of the elevation-drop pass are the
\* ones the clamped neighbours give.
C13_ClampedEverywhere ==
  /\ FillRouteClamped
  /\ Classified =>
       \A c \in Active(topo) :
         /\ contour_length[c] =
              (IF LowerDirsClamped(topo, c) = {} THEN <<20, 1>>
               ELSE Frac(SumOver(LowerDirsClamped(topo, c),
                                 [k \in 1..8 |-> ContourWeight(k)], 8),
                         Cardinality(LowerDirsClamped(topo, c))))
         /\ (AveDelev[c] = <<0, 1>>) =
              (\A k \in LowerDirsClamped(topo, c) :
                 wetnessindex[ClampedTarget(c, xneighbor[k], yneighbor[k])]
                   <= wetnessindex[c])

\* the on-grid cells next to c that are valid and strictly lower
OnGridLower(c) ==
  {n \in Cells : /\ n # c
                  /\ n[1] - c[1] \in (0 - 1)..1
                  /\ n[2] - c[2] \in (0 - 1)..1
                  /\ topo[n] # nodata
                  /\ topo[n] < topo[c]}

Cardinal(c, n) == n[1] = c[1] \/ n[2] = c[2]

\* 0.6*dx for a cardinal and 0.2*dx + 0.2*dy for a diagonal neighbour
WeightOver(c, S) ==
  3 * Cardinality({n \in S : Cardinal(c, n)})
    + 2 * Cardinality({n \in S : ~Cardinal(c, n)})

RECURSIVE SlopeOver(_, _)
SlopeOver(c, S) ==
  IF S = {} THEN 0
  ELSE LET n == CHOOSE x \in S : TRUE
       IN (IF Cardinal(c, n) THEN 100 ELSE 71) * (topo[c] - topo[n])
            + SlopeOver(c, S \ {n})

WetterLower(c) == {n \in OnGridLower(c) : wetnessindex[n] > wetnessindex[c]}

\* C13 as the code has it: fill and routing resolve a step that leaves the grid
\* by the clamped mapping, while both passes of Topindex treat such a neighbour
\* as absent: contour length and mean elevation drop are taken over the
\* on-grid neighbours only, each counted once.
C13_ClampedOnlyInFillAndRouting ==
  /\ FillRouteClamped
  /\ Classified =>
       \A c \in Active(topo) :
         /\ contour_length[c] =
              (IF OnGridLower(c) = {} THEN <<20, 1>>
               ELSE Frac(WeightOver(c, OnGridLower(c)), Cardinality(OnGridLower(c))))
         /\ AveDelev[c] =
              (IF WetterLower(c) = {} THEN <<0, 1>>
               ELSE Frac(SlopeOver(c, WetterLower(c)), Cardinality(WetterLower(c))))

\* an edge cell whose step off the grid clamps to a valid, lower and wetter cell
C13_Witness ==
  /\ Classified
  /\ \E c \in Active(topo), k \in 1..8 :
       /\ OffGrid(c, k)
       /\ k \in LowerDirsClamped(topo, c)
       /\ wetnessindex[ClampedTarget(c, xneighbor[k], yneighbor[k])] > wetnessindex[c]

\* C14: an emitted profile with at least one bin has a body line of exactly
\* as many tuples as the header's bin count LakeBins+WetBins, and its k-th
\* tuple is that of bin nbins+1-k: the top wetland bin first, bin 1 last,
\* every bin once.
C14_BodyReversed ==
  (Emitted /\ NBins > 0) =>
    /\ stdout[1].nbins = NBins
    /\ DOMAIN stdout[2] = 1..NBins
    /\ \A k \in 1..NBins :
         /\ stdout[2][k][1] = prof.DEMSUM[NBins + 1 - k]
         /\ stdout[2][k][2] = prof.AREASUM[NBins + 1 - k]
         /\ Len(stdout[2][k]) = IF option = "SEA" THEN 3 ELSE 2

\* an emitted profile whose first and last bins differ
C14_Witness ==
  /\ Emitted
  /\ NBins > 1
  /\ prof.AREASUM[1] # prof.AREASUM[NBins]
  /\ stdout[2][1][2] = prof.AREASUM[NBins]

\* the routing sweep has started
Sweeping == pc = "route" \/ Routed

\* the cell the sweep visits when t reaches k
Visit(k) == Decode(topovecind[k])

\* C15: the routing sweep visits every cell exactly once, in descending order
\* of filled elevation: a cell visited before another is at least as high.
\* Decoding a rank's index into (i, j) is a bijection onto the grid.
C15_SweepDescending ==
  /\ \A c \in Cells : Cardinality({k \in 1..NCells : Decode(k) = c}) = 1
  /\ Sweeping =>
       /\ \A c \in Cells :
            /\ Cardinality({k \in t..NCells : Visit(k) = c}) <= 1
            /\ Routed => Cardinality({k \in t..NCells : Visit(k) = c}) = 1
       /\ \A a \in t..NCells, b \in t..NCells :
            a < b => topo[Visit(b)] >= topo[Visit(a)]

\* a finished sweep over a grid with three different elevations and a tie
C15_Witness ==
  /\ Routed
  /\ Cardinality({topo[c] : c \in Active(topo)}) >= 3
  /\ \E a \in Active(topo), b \in Active(topo) : a # b /\ topo[a] = topo[b]

\* the cells the sweep has visited so far
Visited == {Visit(k) : k \in t..NCells}

\* C16: when mfdflowroute visits a cell, every valid neighbour strictly higher
\* than it has been visited before, and the visit leaves the flow of every
\* cell visited earlier as it was.
C16_IncomingComplete ==
  [][(pc = "route" /\ t > 1) =>
       /\ \A n \in NeighborSet(Visit(t - 1)) :
            (topo[n] # nodata /\ topo[n] > topo[Visit(t - 1)]) => n \in Visited
       /\ \A c \in Visited : flow'[c] = flow[c]]_vars

\* the sweep is about to visit a cell that has received flow from a higher,
\* visited neighbour
C16_Witness ==
  /\ pc = "route" /\ t > 1 /\ t <= NCells
  /\ topo[Visit(t - 1)] # nodata
  /\ flow[Visit(t - 1)] # <<1, 1>>
  /\ \E n \in NeighborSet(Visit(t - 1)) : topo[n] > topo[Visit(t - 1)] /\ n \in Visited

\* the sweep of lines 1073-1080 from the top rank down to rank k
RECURSIVE SweepDownTo(_, _, _, _, _)
SweepDownTo(fl, tp, rank, n, k) ==
  IF n < k THEN fl
  ELSE LET nxt == mfdflowroute(fl, tp, Decode(rank[n])[1], Decode(rank[n])[2])
       IN IF nxt = fl THEN SweepDownTo(fl, tp, rank, n - 1, k)
          ELSE SweepDownTo(nxt, tp, rank, n - 1, k)

\* C17: whatever the order in which cells of equal filled elevation are
\* visited, a sweep in descending order that has visited the cells of the top
\* ranks holds the flow grid of the sweep in the order indexx gives; at the
\* end of the sweep that is every cell.
C17_TieOrderFree ==
  (Sweeping /\ visited = {Visit(k) : k \in t..NCells}) =>
    flow = SweepDownTo([c \in Cells |-> <<1, 1>>], topo, topovecind, NCells, t)

\* a sweep that has left the order of indexx among valid cells of one
\* elevation, one of which has passed flow on
C17_Witness ==
  /\ pc = "route"
  /\ \E a \in visited, b \in Cells \ visited :
       /\ topo[a] = topo[b] /\ topo[a] # nodata
       /\ a \notin {Visit(k) : k \in t..NCells}
       /\ \E n \in NeighborSet(a) : topo[n] # nodata /\ topo[n] < topo[a]

\* the number of cells in wetland bin b once it is closed, and the positions
\* in VIC[4] of its first and last cell
BinCount(b) == CountOf(WetlandBin.area[b], arg.totalVeg)

RECURSIVE BinFirst(_)
BinFirst(b) == IF b = 0 THEN 0 ELSE BinFirst(b - 1) + BinCount(b - 1)

BinLast(b) == BinFirst(b) + BinCount(b) - 1

PopulatedBins == {b \in 0..(bins.WetBins - 1) : BinCount(b) > 0}

\* C18: after the bin walk every wetland bin that received cells holds the
\* elevation of the first cell assigned to it, the minimum of the elevations
\* assigned to it.
C18_BinKeepsFirst ==
  Assembled =>
    \A b \in PopulatedBins :
      /\ WetlandBin.elev[b] = VICAt(arg.VIC4, BinFirst(b))
      /\ \A i \in BinFirst(b)..BinLast(b) : WetlandBin.elev[b] <= VICAt(arg.VIC4, i)

\* C18 as the code has it: every wetland bin that received cells holds the
\* elevation of the last cell assigned to it, the maximum of the elevations
\* assigned to it.
C18_BinKeepsLast ==
  Assembled =>
    \A b \in PopulatedBins :
      /\ WetlandBin.elev[b] = VICAt(arg.VIC4, BinLast(b))
      /\ \A i \in BinFirst(b)..BinLast(b) : WetlandBin.elev[b] >= VICAt(arg.VIC4, i)

\* a bin of several cells whose first and last elevations differ
C18_Witness ==
  /\ Assembled
  /\ \E b \in PopulatedBins :
       /\ BinCount(b) >= 2
       /\ VICAt(arg.VIC4, BinFirst(b)) < VICAt(arg.VIC4, BinLast(b))

\* C19: with a positive wetland fraction there are at least 5 wetland bins
\* and, after the bin walk, no wetland bin's area fraction is above 0.091,
\* for every count of wetland and of active cells.
C19_BinAreaBounded ==
  (Assembled /\ arg.wetland > 0) =>
    /\ bins.WetBins >= 5
    /\ \A b \in 0..(bins.WetBins - 1) : FracLeq(WetlandBin.area[b], <<91, 1000>>)

\* the first half of C19 alone
AtLeastFiveBins == (Assembled /\ arg.wetland > 0) => bins.WetBins >= 5

\* many active cells, and still a bin above 0.091
LargeGridBinAboveMax ==
  /\ Assembled
  /\ arg.totalVeg = MaxActive
  /\ \E b \in 0..(bins.WetBins - 1) : ~FracLeq(WetlandBin.area[b], <<91, 1000>>)

\* the valid neighbours of c, and the lowest elevation among them
ValidNeighbors(c) == {n \in NeighborSet(c) : topo[n] # nodata}

MinNeighbor(c) ==
  CHOOSE m \in {topo[n] : n \in ValidNeighbors(c)} :
    \A n \in ValidNeighbors(c) : m <= topo[n]

\* the cells a raising frame calls: the cell and its 8 clamped neighbours
ReexaminedAll ==
  \A c \in Cells :
    {RecCalls(c[1], c[2])[k] : k \in 1..9}
      = {c} \cup {ClampedTarget(c, d[1], d[2]) : d \in Steps}

\* a frame that raised c is pushed before its first call, and a frame leaves
\* the stack only after its 9 calls
FrameRunsNineCalls(c) ==
  /\ topo'[c] # topo[c] => Head(stack') = [i |-> c[1], j |-> c[2], k |-> 1]
  /\ Len(stack') < Len(stack) => Head(stack).k > 9

\* C20: each raise sets the cell to the lowest elevation among its valid
\* neighbours, the cell itself not counted, plus fillincrement; after a raise
\* the cell and its 8 clamped neighbours are examined again.
C20_RaiseToNeighborMin ==
  [][/\ ReexaminedAll
     /\ \A c \in Cells :
          /\ (topo'[c] # topo[c] /\ ValidNeighbors(c) # {}) =>
               topo'[c] = MinNeighbor(c) + fillincrement
          /\ FrameRunsNineCalls(c)]_vars

\* C20 as the code has it: a cell is raised only when no valid neighbour is
\* lower than it, and each raise adds fillincrement to the cell's own
\* elevation; after a raise the cell and its 8 clamped neighbours are
\* examined again.
C20_RaiseByIncrement ==
  [][/\ ReexaminedAll
     /\ \A c \in Cells :
          /\ topo'[c] # topo[c] =>
               /\ topo'[c] = topo[c] + fillincrement
               /\ \A n \in ValidNeighbors(c) : topo[n] >= topo[c]
          /\ FrameRunsNineCalls(c)]_vars

\* a pit just raised that is still not above any of its valid neighbours
C20_Witness ==
  /\ pc = "fill"
  /\ stack # <<>>
  /\ Head(stack).k = 1
  /\ ValidNeighbors(<<Head(stack).i, Head(stack).j>>) # {}
  /\ topo[<<Head(stack).i, Head(stack).j>>]
       < MinNeighbor(<<Head(stack).i, Head(stack).j>>) + fillincrement

\* how often the item e stands in the array a
Occurrences(a, e) == Cardinality({k \in DOMAIN a : a[k] = e})

C22_WalkInsideBins ==
  walk # <<>> => ~walk.oob

\* with at least one wetland cell the walk stays inside the allocated bins
WetlandWalkInsideBins ==
  (walk # <<>> /\ arg.wetland > 0) => ~walk.oob

\* the walk of a call without wetland cells wrote past the zero bins
NoWetlandWalkOutside ==
  /\ walk # <<>>
  /\ walk.oob
  /\ arg.wetland = 0
  /\ bins.WetBins = 0
  /\ arg.n = arg.totalVeg

\* C23: every position of OrderedCellsDEM and OrderedCellsTWI that Topindex
\* reads or writes lies in [0, count-1], count being the number of active
\* cells the arrays were allocated for, the loop that resets OrderedCellsTWI
\* before the wetland ranking included.
C23_ItemsInsideArrays ==
  used # <<>> =>
    /\ used.DEM \subseteq 0..(used.count - 1)
    /\ used.TWI \subseteq 0..(used.count - 1)

\* but for the position count itself, which the reset loop writes, every
\* position used lies in [0, count-1]
ItemsInsideButReset ==
  used # <<>> =>
    /\ used.DEM \subseteq 0..(used.count - 1)
    /\ used.TWI \subseteq 0..used.count

\* the reset loop has written one item past OrderedCellsTWI, in a run with
\* wetland cells to rank
ResetWrotePastArray ==
  /\ pc = "viccall"
  /\ veg.wetlandVeg[1] > 0
  /\ used.count \in used.TWI
  /\ used.DEM = 0..(used.count - 1)

====
